---- MODULE Spec2Model ----
(***************************************************************************)
(* European option pricer: the analytical (Black-Scholes) pricer, the      *)
(* Greeks engine, the Monte Carlo simulation pricer with numpy's           *)
(* process-wide random generator, and the implied-volatility solver.       *)
(*                                                                         *)
(* Numbers.  Python floats are modelled in fixed point: the integer v      *)
(* stands for the real v / Scale.  Every arithmetic operation rounds to    *)
(* that grid, as a float operation rounds to the nearest double; the grid  *)
(* is coarser than a double's.  Times to maturity are passed in half       *)
(* trading days (1/504 year) so that T*252 takes integer and half-integer  *)
(* values exactly.                                                         *)
(***************************************************************************)
EXTENDS Integers, Sequences, FiniteSets, TLC

----------------------------------------------------------------------------
(* Fixed-point arithmetic *)

Scale == 10 ^ 6
Kilo == 10 ^ 3

Abs(x) == IF x < 0 THEN -x ELSE x
Sgn(x) == IF x < 0 THEN -1 ELSE 1

\* integer quotient rounded toward zero (Python's int() of a quotient)
Trunc(a, n) == Sgn(a) * Sgn(n) * (Abs(a) \div Abs(n))

MulAbs(a, b) ==
    LET ah == a \div Kilo
        al == a % Kilo
        bh == b \div Kilo
        bl == b % Kilo
    IN  ah * bh + (ah * bl + al * bh) \div Kilo + (al * bl) \div Scale

\* a * b
Mul(a, b) == Sgn(a) * Sgn(b) * MulAbs(Abs(a), Abs(b))

RECURSIVE FracDigits(_, _, _)
\* n more decimal digits of rem / b, as an integer
FracDigits(rem, b, n) ==
    IF n = 0 THEN 0
    ELSE LET r10 == rem * 10
         IN  (r10 \div b) * (10 ^ (n - 1)) + FracDigits(r10 % b, b, n - 1)

DivAbs(a, b) == (a \div b) * Scale + FracDigits(a % b, b, 6)

\* a / b for b # 0 (the callers raise ZeroDivisionError before using it)
Div(a, b) == Sgn(a) * Sgn(b) * DivAbs(Abs(a), Abs(b))

RECURSIVE Newton(_, _)
Newton(x, y) ==
    LET y2 == (y + Div(x, y)) \div 2
    IN  IF y2 >= y THEN y ELSE Newton(x, y2)

\* math.sqrt(x) / np.sqrt(x) for x >= 0
Sqrt(x) == IF x = 0 THEN 0 ELSE Newton(x, IF x > Scale THEN x ELSE Scale)

RECURSIVE ExpSeries(_, _, _, _)
ExpSeries(x, term, n, last) ==
    IF n > last \/ term = 0 THEN 0
    ELSE term + ExpSeries(x, Trunc(Mul(term, x), n), n + 1, last)

\* math.exp(x) / np.exp(x)
Exp(x) == ExpSeries(x, Scale, 1, 24)

RECURSIVE AtanhSeries(_, _, _, _)
AtanhSeries(z2, pow, k, last) ==
    IF k > last \/ pow = 0 THEN 0
    ELSE Trunc(pow, 2 * k + 1) + AtanhSeries(z2, Mul(pow, z2), k + 1, last)

\* math.log(q) for q > 0: 2 * atanh((q - 1) / (q + 1))
Ln(q) ==
    LET z == Div(q - Scale, q + Scale)
    IN  2 * AtanhSeries(Mul(z, z), z, 0, 40)

\* scipy.stats.norm.cdf at 0, 0.1, ..., 4.0
PhiTable ==
    << 500000, 539828, 579260, 617911, 655422, 691462, 725747, 758036,
       788145, 815940, 841345, 864334, 884930, 903200, 919243, 933193,
       945201, 955435, 964070, 971283, 977250, 982136, 986097, 989276,
       991802, 993790, 995339, 996533, 997445, 998134, 998650, 999032,
       999313, 999517, 999663, 999767, 999841, 999892, 999928, 999952,
       999968 >>

\* the upper half of the distribution, by linear interpolation in the table
PhiUpper(x) ==
    LET step == Scale \div 10
        i == x \div step
    IN  IF i >= 40 THEN Scale
        ELSE PhiTable[i + 1]
             + Mul(PhiTable[i + 2] - PhiTable[i + 1], 10 * (x % step))

\* norm.cdf(x): the lower tail is one minus the upper one, as ndtr computes it
Phi(x) == IF x >= 0 THEN PhiUpper(x) ELSE Scale - PhiUpper(-x)

----------------------------------------------------------------------------
(* Outcomes of a call: a returned number, a returned NaN, or the exception *)
(* the call ends in.                                                       *)

TradingDays == 252

\* a time given in half trading days, as a number of years
Years(T) == Trunc(T * Scale, 2 * TradingDays)

Half == Scale \div 2

Value(v) == [kind |-> "value", val |-> v]
NaN == [kind |-> "nan", val |-> 0]
Raise(e) == [kind |-> e, val |-> 0]

ErrorKinds == {"ValueError", "ZeroDivisionError", "IndexError"}
IsError(o) == o.kind \in ErrorKinds
NoFault == "none"

----------------------------------------------------------------------------
(* Analytical pricer *)

\* sigma * math.sqrt(T), evaluated only for T >= 0
SigmaSqrtT(T, sigma) == Mul(sigma, Sqrt(Years(T)))

\* d1 = (math.log(S / K) + (r + 0.5 * sigma**2) * T) / (sigma * math.sqrt(T))
\* with the exceptions of S / K, math.log, math.sqrt and the division, in
\* the order Python evaluates them
D1(S, K, T, r, sigma) ==
    IF K = 0 THEN Raise("ZeroDivisionError")
    ELSE IF Div(S, K) <= 0 THEN Raise("ValueError")
    ELSE IF T < 0 THEN Raise("ValueError")
    ELSE IF SigmaSqrtT(T, sigma) = 0 THEN Raise("ZeroDivisionError")
    ELSE Value(Div(Ln(Div(S, K)) + Mul(r + Mul(Half, Mul(sigma, sigma)), Years(T)),
                   SigmaSqrtT(T, sigma)))

\* K * math.exp(-r * T)
DiscountedStrike(K, T, r) == Mul(K, Exp(Mul(-r, Years(T))))

black_scholes_call(S, K, T, r, sigma) ==
    LET d1 == D1(S, K, T, r, sigma)
        d2 == d1.val - SigmaSqrtT(T, sigma)
    IN  IF IsError(d1) THEN d1
        ELSE Value(Mul(S, Phi(d1.val)) - Mul(DiscountedStrike(K, T, r), Phi(d2)))

black_scholes_put(S, K, T, r, sigma) ==
    LET d1 == D1(S, K, T, r, sigma)
        d2 == d1.val - SigmaSqrtT(T, sigma)
    IN  IF IsError(d1) THEN d1
        ELSE Value(Mul(DiscountedStrike(K, T, r), Phi(-d2)) - Mul(S, Phi(-d1.val)))

----------------------------------------------------------------------------
(* Greeks engine (OptionGreeks).  norm.pdf and the divisions by Python     *)
(* floats of its numpy results follow IEEE arithmetic: they return an      *)
(* infinity or NaN where a Python float division would raise.              *)

Inf(sign) == [kind |-> "inf", val |-> sign]

RECURSIVE Squared(_, _)
\* x ** (2 ** n)
Squared(x, n) == IF n = 0 THEN x ELSE Squared(Mul(x, x), n - 1)

\* np.exp(-y) for y >= 0, by exp(-y) = exp(-y / 16) ** 16; below the grid
\* the result is 0, as it is 0.0 below the smallest double
ExpNeg(y) == IF y >= 16 * Scale THEN 0 ELSE Squared(Exp(-(y \div 16)), 4)

\* math.sqrt(2 * math.pi)
Sqrt2Pi == 2506628

\* beyond it np.exp(-x**2 / 2.0) is 0.0
PdfCut == 39 * Scale

\* norm.pdf(x) = np.exp(-x**2 / 2.0) / sqrt(2 * pi)
Pdf(x) ==
    IF Abs(x) >= PdfCut THEN 0
    ELSE Div(ExpNeg(Mul(x, x) \div 2), Sqrt2Pi)

\* d2 = (math.log(S / K) + (r - 0.5 * sigma**2) * T) / (sigma * math.sqrt(T))
\* as rho_call and rho_put compute it, with the exceptions in Python's order
D2(S, K, T, r, sigma) ==
    IF K = 0 THEN Raise("ZeroDivisionError")
    ELSE IF Div(S, K) <= 0 THEN Raise("ValueError")
    ELSE IF T < 0 THEN Raise("ValueError")
    ELSE IF SigmaSqrtT(T, sigma) = 0 THEN Raise("ZeroDivisionError")
    ELSE Value(Div(Ln(Div(S, K)) + Mul(r - Mul(Half, Mul(sigma, sigma)), Years(T)),
                   SigmaSqrtT(T, sigma)))

\* a numpy float divided by the Python float den
NpDiv(num, den) ==
    IF den # 0 THEN Value(Div(num, den))
    ELSE IF num = 0 THEN NaN
    ELSE Inf(Sgn(num))

delta_call(S, K, T, r, sigma) ==
    LET d1 == D1(S, K, T, r, sigma)
    IN  IF IsError(d1) THEN d1 ELSE Value(Phi(d1.val))

\* delta_put without its "- 1"
delta_put_unshifted(S, K, T, r, sigma) == delta_call(S, K, T, r, sigma)

delta_put(S, K, T, r, sigma) ==
    LET d1 == D1(S, K, T, r, sigma)
    IN  IF IsError(d1) THEN d1 ELSE Value(Phi(d1.val) - Scale)

\* norm.pdf(d1) / (S * sigma * math.sqrt(T))
gamma(S, K, T, r, sigma) ==
    LET d1 == D1(S, K, T, r, sigma)
    IN  IF IsError(d1) THEN d1
        ELSE NpDiv(Pdf(d1.val), Mul(Mul(S, sigma), Sqrt(Years(T))))

\* S * norm.pdf(d1) * math.sqrt(T) / 100
vega(S, K, T, r, sigma) ==
    LET d1 == D1(S, K, T, r, sigma)
    IN  IF IsError(d1) THEN d1
        ELSE Value(Trunc(Mul(Mul(S, Pdf(d1.val)), Sqrt(Years(T))), 100))

\* K * T * math.exp(-r * T) * norm.cdf(d2) / 100
rho_call(S, K, T, r, sigma) ==
    LET d2 == D2(S, K, T, r, sigma)
    IN  IF IsError(d2) THEN d2
        ELSE Value(Trunc(Mul(Mul(Mul(K, Years(T)), Exp(Mul(-r, Years(T)))),
                             Phi(d2.val)), 100))

\* -K * T * math.exp(-r * T) * norm.cdf(-d2) / 100
rho_put(S, K, T, r, sigma) ==
    LET d2 == D2(S, K, T, r, sigma)
    IN  IF IsError(d2) THEN d2
        ELSE Value(Trunc(Mul(Mul(Mul(-K, Years(T)), Exp(Mul(-r, Years(T)))),
                             Phi(-d2.val)), 100))

----------------------------------------------------------------------------
(* numpy's process-wide random generator.  Its state is one number; the    *)
(* generator is a small linear congruential one and a normal deviate is    *)
(* read off the state's high bits.                                         *)

RngMod == 2 ^ 3
RngStates == 0 .. RngMod - 1

\* the state np.random.seed(seed) installs
SeedState(seed) == (3 * seed) % RngMod

\* the call without its np.random.seed(seed): the generator stays as it is
SeededNot(s, seed) == s

\* np.random.seed(seed), called with the generator in state s
Seeded(s, seed) == SeedState(seed)

NextState(s) == (5 * s + 3) % RngMod

NormalTable == << -1500000, -500000, 500000, 1500000 >>
Normal(s) == NormalTable[(s \div 2) + 1]

RECURSIVE StandardNormal(_, _)
\* np.random.standard_normal(N) with the generator in state s: the N
\* deviates and the state it leaves
StandardNormal(s, N) ==
    IF N <= 0 THEN [Z |-> << >>, state |-> s]
    ELSE LET rest == StandardNormal(NextState(s), N - 1)
         IN  [Z |-> << Normal(s) >> \o rest.Z, state |-> rest.state]

----------------------------------------------------------------------------
(* Simulation pricer.  A frame holds the locals of one call; dt is kept as *)
(* the exact quotient num / den, in half trading days.                     *)

IdleFrame == [pc |-> "idle"]

\* steps = int(T * 252): T * 252 is T / 2 for T in half days, and int()
\* rounds toward zero
Steps(T) == Trunc(T, 2)

\* dt = T / 252
Dt(T) == [num |-> T, den |-> TradingDays]

\* dt as a number of years
DtYears(dt) == Trunc(dt.num * Scale, 2 * TradingDays * dt.den)

\* The call after np.random.seed: dt, steps, paths = np.zeros((N, steps + 1))
\* and paths[:, 0] = S.  np.zeros raises ValueError on a negative dimension
\* and the assignment IndexError when the array has no column.
McEnter(op, args) ==
    LET steps == Steps(args.T)
        f == [pc |-> "seed", op |-> op, args |-> args, steps |-> steps,
              dt |-> Dt(args.T), t |-> 0, paths |-> << >>,
              out |-> Raise(NoFault)]
    IN  IF args.N < 0 \/ steps + 1 < 0
        THEN [f EXCEPT !.pc = "done", !.out = Raise("ValueError")]
        ELSE IF steps + 1 = 0
        THEN [f EXCEPT !.pc = "done", !.out = Raise("IndexError")]
        ELSE [f EXCEPT !.pc = "loop", !.t = 1,
                       !.paths = [c \in 1 .. steps + 1 |->
                                    [i \in 1 .. args.N |->
                                       IF c = 1 THEN args.S ELSE 0]]]

\* (r - 0.5 * sigma**2) * dt
Drift(args, dt) ==
    Mul(args.r - Mul(Half, Mul(args.sigma, args.sigma)), DtYears(dt))

\* sigma * np.sqrt(dt)
Diffusion(args, dt) == Mul(args.sigma, Sqrt(DtYears(dt)))

\* One turn of the loop, with the generator in state s: Z is drawn and
\* paths[:, t] = paths[:, t-1] * np.exp((r - 0.5 * sigma**2) * dt
\*                                      + sigma * np.sqrt(dt) * Z)
McStep(f, s) ==
    LET d == StandardNormal(s, f.args.N)
        drift == Drift(f.args, f.dt)
        diffusion == Diffusion(f.args, f.dt)
    IN  [frame |-> [f EXCEPT !.t = f.t + 1,
                             !.paths[f.t + 1] =
                                 [i \in 1 .. f.args.N |->
                                    Mul(f.paths[f.t][i],
                                        Exp(drift + Mul(diffusion, d.Z[i])))]],
         state |-> d.state]

RECURSIVE SumSeq(_)
SumSeq(q) == IF q = << >> THEN 0 ELSE Head(q) + SumSeq(Tail(q))

Max(a, b) == IF a >= b THEN a ELSE b

\* np.maximum(paths[:, -1] - K, 0) for a call, np.maximum(K - paths[:, -1], 0)
\* for a put
Payoffs(f) ==
    LET last == f.paths[f.steps + 1]
    IN  [i \in 1 .. f.args.N |->
           IF f.op = "monte_carlo_call" THEN Max(last[i] - f.args.K, 0)
           ELSE Max(f.args.K - last[i], 0)]

\* np.exp(-r * T) * np.mean(payoffs); the mean of no payoff is NaN
McExit(f) ==
    [f EXCEPT !.pc = "done",
              !.out = IF f.args.N = 0 THEN NaN
                      ELSE Value(Mul(Exp(Mul(-f.args.r, Years(f.args.T))),
                                     Trunc(SumSeq(Payoffs(f)), f.args.N)))]

RECURSIVE McRun(_, _)
\* the call run to its end from frame f with the generator in state s
McRun(f, s) ==
    IF f.pc # "loop" THEN [frame |-> f, state |-> s]
    ELSE IF f.t <= f.steps
    THEN LET n == McStep(f, s) IN McRun(n.frame, n.state)
    ELSE [frame |-> McExit(f), state |-> s]

\* monte_carlo_call / monte_carlo_put as one call, entered with the
\* generator in state s
monte_carlo(op, args, s) == McRun(McEnter(op, args), Seeded(s, args.seed))

----------------------------------------------------------------------------
(* Implied-volatility solver *)

\* bounds = (0.01, 3.0)
LoBound == Scale \div 100
HiBound == 3 * Scale

\* initial_guess = 0.3 when the caller passes none
DefaultGuess == (3 * Scale) \div 10

\* scipy's golden_mean, 0.5 * (3 - sqrt(5)), and its default xatol, 1e-5
GoldenMean == Mul(Half, 3 * Scale - Sqrt(5 * Scale))
XAtol == Scale \div (10 ^ 5)

\* abs(price - market_price); an exception of the pricer passes through
AbsError(p, market_price) ==
    IF IsError(p) THEN p ELSE Value(Abs(p.val - market_price))

\* objective(sigma) = abs(black_scholes_xxx(S, K, T, r, sigma) - market_price)
Objective(op, args, sigma) ==
    AbsError(IF op = "solve_call"
             THEN black_scholes_call(args.S, args.K, args.T, args.r, sigma)
             ELSE black_scholes_put(args.S, args.K, args.T, args.r, sigma),
             args.market_price)

RECURSIVE MinimizeBounded(_, _, _, _)

\* the search goes on in [a, x2] or [x1, b], whichever holds the smaller
\* value f1, f2 of the objective at x1 < x2; an exception raised by the
\* objective ends the search and is raised by minimize_scalar
Narrow(op, args, a, b, x1, x2, f1, f2) ==
    IF IsError(f1) THEN f1
    ELSE IF IsError(f2) THEN f2
    ELSE IF f1.val <= f2.val THEN MinimizeBounded(op, args, a, x2)
    ELSE MinimizeBounded(op, args, x1, b)

Probe(op, args, a, b, x1, x2) ==
    Narrow(op, args, a, b, x1, x2,
           Objective(op, args, x1), Objective(op, args, x2))

\* minimize_scalar(objective, bounds = (a, b), method = 'bounded'): a
\* golden-section search that never leaves [a, b]
MinimizeBounded(op, args, a, b) ==
    IF b - a <= XAtol THEN Value((a + b) \div 2)
    ELSE Probe(op, args, a, b,
               a + Mul(GoldenMean, b - a), b - Mul(GoldenMean, b - a))

\* "except ValueError:" in the place of the bare "except:"
CaughtValueError(kind) == kind = "ValueError"

\* the bare "except:" catches every exception
Caught(kind) == TRUE

\* try: ... return result.x / except: return initial_guess, for the outcome
\* m of minimize_scalar.  path and fault are not returned: they record which
\* branch returned and the exception it swallowed.
Recover(m, args) ==
    IF ~IsError(m)
    THEN [out |-> m, path |-> "converged", fault |-> NoFault]
    ELSE IF Caught(m.kind)
    THEN [out |-> Value(args.initial_guess), path |-> "fellback",
          fault |-> m.kind]
    ELSE [out |-> m, path |-> "raised", fault |-> m.kind]

\* the search of Solve below run over bounds = (0.01, 30.0)
SolveWide(op, args) ==
    Recover(MinimizeBounded(op, args, LoBound, 10 * HiBound), args)

\* result = minimize_scalar(objective, bounds=(0.01, 3.0), method='bounded')
\* inside the try
Solve(op, args) ==
    Recover(MinimizeBounded(op, args, LoBound, HiBound), args)

solve_call(args) == Solve("solve_call", args)
solve_put(args) == Solve("solve_put", args)

----------------------------------------------------------------------------
(* State *)

VARIABLES
    rng,    \* the state of numpy's global generator
    ret,    \* the call that has just ended, until its caller takes the result
    hist,   \* what the caller kept of an earlier call
    th      \* the frame of every thread that may run a simulation

vars == << rng, ret, hist, th >>

Threads == {1, 2}

NoCall ==
    [op |-> "none", args |-> << >>, out |-> Raise(NoFault), steps |-> 0,
     dt |-> [num |-> 0, den |-> 1], path |-> "none", fault |-> NoFault]

PricerOps == {"black_scholes_call", "black_scholes_put"}
SimOps == {"monte_carlo_call", "monte_carlo_put"}
SolverOps == {"solve_call", "solve_put"}
GreekOps ==
    {"delta_call", "delta_put", "gamma", "vega", "rho_call", "rho_put"}

\* What the caller keeps of a call: of a simulation its arguments and its
\* outcome, of a solve the returned outcome and the branch that returned it.
Snapshot(c) ==
    IF c.op \in SolverOps
    THEN [op |-> "solve", args |-> << >>, out |-> c.out, path |-> c.path]
    ELSE [op |-> c.op, args |-> c.args, out |-> c.out, path |-> c.path]

\* numpy seeds the global generator from the operating system's entropy
Init ==
    /\ rng \in RngStates
    /\ ret = NoCall
    /\ hist = Snapshot(NoCall)
    /\ th = [i \in Threads |-> IdleFrame]

----------------------------------------------------------------------------
(* Inputs *)

Unit == 100 * Scale
MaxHalfDays == 4
MaxPaths == 2

Rates == {Scale \div 20}
Sigmas == {-(Scale \div 5), 0, Scale \div 5, DefaultGuess}

PricerArgs ==
    [S : {-Unit, 0, Unit}, K : {-Unit, 0, Unit, Unit + Unit \div 10},
     T : {-2 * TradingDays, 0, TradingDays, 2 * TradingDays},
     r : Rates, sigma : Sigmas]

Seeds == {1, 2}

SimArgs ==
    [S : {Unit}, K : {Unit}, T : -MaxHalfDays .. MaxHalfDays, r : Rates,
     sigma : {-(Scale \div 5), 0, Scale \div 5}, N : -1 .. MaxPaths,
     seed : Seeds]

\* the valid inputs among SimArgs, and N = 0
ReproArgs ==
    {a \in SimArgs : a.T >= 0 /\ a.N >= 0 /\ a.sigma > 0}

\* the inputs of the calls that run side by side
ConcArgs == {a \in SimArgs : a.T \in {2, MaxHalfDays} /\ a.N = 1 /\ a.sigma > 0}

MarketPrices == {1045 * (Scale \div 100), 95 * Scale}

\* the guesses a caller passes: none (0.3), 5.0, or a volatility it kept
\* from an earlier solve
Guesses ==
    {DefaultGuess, 5 * Scale}
    \cup (IF hist.op = "solve" /\ hist.out.kind = "value"
          THEN {hist.out.val} ELSE {})

SolverArgs ==
    [S : {0, Unit}, K : {0, Unit}, T : {-2 * TradingDays, 0, 2 * TradingDays},
     r : Rates, market_price : MarketPrices, initial_guess : Guesses]

GreekRates == {-(Scale \div 2), -(Scale \div 20), 0, Scale \div 20}

\* spot below, at and above the strikes; maturities of half a trading day,
\* half a year, one year and two years; and the invalid S = 0, T = 0,
\* sigma <= 0
GreekArgs ==
    [S : {0, Unit - Unit \div 5, Unit, Unit + Unit \div 5},
     K : {Unit, Unit + Unit \div 10},
     T : {0, 1, TradingDays, 2 * TradingDays, 4 * TradingDays},
     r : GreekRates, sigma : Sigmas]

----------------------------------------------------------------------------
(* Operations *)

Returns(op, args, out) == [NoCall EXCEPT !.op = op, !.args = args, !.out = out]

BlackScholesCall(a) ==
    /\ ret.op = "none"
    /\ ret' = Returns("black_scholes_call", a,
                      black_scholes_call(a.S, a.K, a.T, a.r, a.sigma))
    /\ UNCHANGED << rng, hist, th >>

BlackScholesPut(a) ==
    /\ ret.op = "none"
    /\ ret' = Returns("black_scholes_put", a,
                      black_scholes_put(a.S, a.K, a.T, a.r, a.sigma))
    /\ UNCHANGED << rng, hist, th >>

Greek(op, a, out) ==
    /\ ret.op = "none"
    /\ ret' = Returns(op, a, out)
    /\ UNCHANGED << rng, hist, th >>

DeltaCall(a) == Greek("delta_call", a, delta_call(a.S, a.K, a.T, a.r, a.sigma))
DeltaPut(a) == Greek("delta_put", a, delta_put(a.S, a.K, a.T, a.r, a.sigma))
Gamma(a) == Greek("gamma", a, gamma(a.S, a.K, a.T, a.r, a.sigma))
Vega(a) == Greek("vega", a, vega(a.S, a.K, a.T, a.r, a.sigma))
RhoCall(a) == Greek("rho_call", a, rho_call(a.S, a.K, a.T, a.r, a.sigma))
RhoPut(a) == Greek("rho_put", a, rho_put(a.S, a.K, a.T, a.r, a.sigma))

\* a whole simulation call on the single thread of the program
MonteCarlo(op, a) ==
    LET run == monte_carlo(op, a, rng)
    IN  /\ ret.op = "none"
        /\ rng' = run.state
        /\ ret' = [Returns(op, a, run.frame.out) EXCEPT
                      !.steps = run.frame.steps, !.dt = run.frame.dt]
        /\ UNCHANGED << hist, th >>

MonteCarloCall(a) == MonteCarlo("monte_carlo_call", a)
MonteCarloPut(a) == MonteCarlo("monte_carlo_put", a)

\* any other draw from the global generator
ExternalDraw ==
    /\ rng' = NextState(rng)
    /\ UNCHANGED << ret, hist, th >>

SolveOp(op, a, s) ==
    /\ ret.op = "none"
    /\ ret' = [Returns(op, a, s.out) EXCEPT !.path = s.path, !.fault = s.fault]
    /\ UNCHANGED << rng, hist, th >>

SolveCall(a) == SolveOp("solve_call", a, solve_call(a))
SolvePut(a) == SolveOp("solve_put", a, solve_put(a))

\* the caller takes the result and keeps it
Keep ==
    /\ ret.op # "none"
    /\ hist' = Snapshot(ret)
    /\ ret' = NoCall
    /\ UNCHANGED << rng, th >>

\* the caller takes the result and drops it
Drop ==
    /\ ret.op # "none"
    /\ ret' = NoCall
    /\ UNCHANGED << rng, hist, th >>

----------------------------------------------------------------------------
(* Simulation calls on several threads, interleaved at the seeding and at  *)
(* every draw                                                              *)

ThreadCall(i, op, a) ==
    /\ th[i].pc = "idle"
    /\ th' = [th EXCEPT ![i] = [pc |-> "seed", op |-> op, args |-> a]]
    /\ UNCHANGED << rng, ret, hist >>

ThreadSeed(i) ==
    /\ th[i].pc = "seed"
    /\ rng' = Seeded(rng, th[i].args.seed)
    /\ th' = [th EXCEPT ![i] = McEnter(th[i].op, th[i].args)]
    /\ UNCHANGED << ret, hist >>

ThreadDraw(i) ==
    /\ th[i].pc = "loop"
    /\ th[i].t <= th[i].steps
    /\ LET n == McStep(th[i], rng)
       IN  /\ rng' = n.state
           /\ th' = [th EXCEPT ![i] = n.frame]
    /\ UNCHANGED << ret, hist >>

ThreadFinish(i) ==
    /\ th[i].pc = "loop"
    /\ th[i].t > th[i].steps
    /\ th' = [th EXCEPT ![i] = McExit(th[i])]
    /\ UNCHANGED << rng, ret, hist >>

ThreadReturn(i) ==
    /\ th[i].pc = "done"
    /\ th' = [th EXCEPT ![i] = IdleFrame]
    /\ UNCHANGED << rng, ret, hist >>

----------------------------------------------------------------------------
(* Specifications *)

NextPricer ==
    \/ \E a \in PricerArgs : BlackScholesCall(a) \/ BlackScholesPut(a)
    \/ Drop

NextGreeks ==
    \/ \E a \in GreekArgs :
           \/ DeltaCall(a) \/ DeltaPut(a)
           \/ Gamma(a) \/ Vega(a)
           \/ RhoCall(a) \/ RhoPut(a)
    \/ Drop

NextSim ==
    \/ \E a \in SimArgs : MonteCarloCall(a) \/ MonteCarloPut(a)
    \/ ExternalDraw
    \/ Drop

NextRepro ==
    \/ \E a \in ReproArgs : MonteCarloCall(a) \/ MonteCarloPut(a)
    \/ ExternalDraw
    \/ Keep
    \/ Drop

NextConc ==
    \E i \in Threads :
        \/ \E a \in ConcArgs : \E op \in SimOps : ThreadCall(i, op, a)
        \/ ThreadSeed(i)
        \/ ThreadDraw(i)
        \/ ThreadFinish(i)
        \/ ThreadReturn(i)

NextSolver ==
    \/ \E a \in SolverArgs : SolveCall(a) \/ SolvePut(a)
    \/ Keep
    \/ Drop

\* the single-threaded program
Next == NextPricer \/ NextGreeks \/ NextSim \/ NextSolver \/ Keep

Spec == Init /\ [][Next]_vars
SpecPricer == Init /\ [][NextPricer]_vars
SpecGreeks == Init /\ [][NextGreeks]_vars
SpecSim == Init /\ [][NextSim]_vars
SpecRepro == Init /\ [][NextRepro]_vars
SpecConc == Init /\ [][NextConc]_vars
SpecSolver == Init /\ [][NextSolver]_vars

----------------------------------------------------------------------------
(* Properties *)

InDomain(v) == LoBound <= v /\ v <= HiBound

\* C1: a simulation call returns the price that an earlier call with the
\* same function and the same (S, K, T, r, sigma, N, seed) returned, whatever
\* calls and draws happened between the two.
C1_Reproducible ==
    (ret.op \in SimOps /\ hist.op = ret.op /\ hist.args = ret.args)
        => ret.out = hist.out

\* a call has returned a positive price over at least one time step, and
\* the caller holds the result of an earlier call with the same arguments
C1_Witness ==
    /\ ret.op \in SimOps /\ hist.op = ret.op /\ hist.args = ret.args
    /\ ret.steps >= 1 /\ ret.args.N >= 1
    /\ ret.out.kind = "value" /\ ret.out.val > 0

\* C2: black_scholes_call and black_scholes_put end in an error, and return
\* no price, whenever T <= 0 or sigma <= 0 or S <= 0 or K <= 0.  Every
\* exception the call can end in is counted as the rejection.
C2_RejectsInvalid ==
    (/\ ret.op \in PricerOps
     /\ (ret.args.T <= 0 \/ ret.args.sigma <= 0 \/ ret.args.S <= 0
         \/ ret.args.K <= 0))
        => IsError(ret.out)

\* C3: monte_carlo_call and monte_carlo_put end in an error, and return
\* neither a price nor NaN, whenever N < 1 or T <= 0 or sigma <= 0.  Every
\* exception the call can end in is counted as the rejection.
C3_RejectsInvalid ==
    (/\ ret.op \in SimOps
     /\ (ret.args.N < 1 \/ ret.args.T <= 0 \/ ret.args.sigma <= 0))
        => IsError(ret.out)

\* C4: the caller can tell from what a solve returns whether the search
\* converged or the default was substituted: two solves that return the same
\* result went through the same branch.
C4_FallbackObservable ==
    (ret.op \in SolverOps /\ hist.op = "solve" /\ ret.out = hist.out)
        => ret.path = hist.path

\* C5: a solve called with S <= 0, K <= 0 or T <= 0 ends in an error and
\* returns no volatility.
C5_DomainErrorsAbort ==
    (/\ ret.op \in SolverOps
     /\ (ret.args.S <= 0 \/ ret.args.K <= 0 \/ ret.args.T <= 0))
        => IsError(ret.out)

\* C6: a solve never ends in an exception, and when the minimization or an
\* evaluation of its objective failed it returns the caller's initial_guess
\* (0.3 when none is passed).
C6_FailureReturnsDefault ==
    ret.op \in SolverOps =>
        /\ ~IsError(ret.out)
        /\ ret.fault # NoFault => ret.out = Value(ret.args.initial_guess)

\* a solve whose objective divided by zero has returned the default 0.3
C6_Witness ==
    /\ ret.op \in SolverOps
    /\ ret.fault = "ZeroDivisionError"
    /\ ret.args.initial_guess = DefaultGuess
    /\ ret.out = Value(DefaultGuess)

RoundHalf(x) ==
    IF x % 2 = 0 THEN x \div 2
    ELSE IF ((x - 1) \div 2) % 2 = 0 THEN (x - 1) \div 2 ELSE (x + 1) \div 2

\* C8: for a valid T > 0 the call simulates steps = round(T * 252)
\* increments of size dt = T / steps, so that steps * dt = T.
C8_Discretization ==
    (/\ ret.op \in SimOps
     /\ ret.args.T > 0 /\ ret.args.N >= 1 /\ ret.args.sigma > 0)
        => /\ ret.steps = RoundHalf(ret.args.T)
           /\ ret.steps * ret.dt.num = ret.args.T * ret.dt.den

\* C9: a simulation call that ran interleaved with another one returns the
\* price it returns when it runs alone.
C9_Isolated ==
    \A i \in Threads :
        th[i].pc = "done" =>
            \A s \in RngStates :
                th[i].out = monte_carlo(th[i].op, th[i].args, s).frame.out

\* the valid inputs of the Greeks: S, K, T and sigma positive, any r
ValidGreekArgs(a) == a.S > 0 /\ a.K > 0 /\ a.T > 0 /\ a.sigma > 0

====
